---- MODULE Spec2Model ----
(***************************************************************************)
(* Model of server.py: the two tools call_option and put_option that the   *)
(* FastMCP server "Demo_Options" registers.                                *)
(*                                                                         *)
(* An invocation is a request (tool, strike, premium) held in a slot.  The *)
(* dispatch layer binds the two arguments to the handler's `float`         *)
(* parameters, the handler body runs in three steps (construct the option  *)
(* object, call breakeven(), build the returned dict) and the caller then  *)
(* collects the response.                                                  *)
(*                                                                         *)
(* Python floats are modelled as tagged values: a finite number (an        *)
(* integer here), +inf, -inf or nan; arithmetic follows IEEE-754 on the    *)
(* non-finite ones.  The classes Call and Put come from options_library,   *)
(* which is imported and not part of server.py: they are modelled from the *)
(* specification (breakeven = strike + premium for a call, strike -        *)
(* premium for a put; the constructor stores strike and premium).          *)
(***************************************************************************)
EXTENDS Integers, FiniteSets, TLC

\* Finite argument values range over -MaxVal..MaxVal in the sequential model.
MaxVal == 2
\* Number of invocation slots that may be in flight at once.
MaxInv == 2
\* Finite argument values range over 0..MaxConcVal in the concurrent model.
MaxConcVal == 1

VARIABLES pc, req, local, heap, resp, seen

vars == <<pc, req, local, heap, resp, seen>>

Inv == 1..MaxInv
Refs == 1..MaxInv
Tools == {"call_option", "put_option"}

----------------------------------------------------------------------------
\* Values

Num(n) == [k |-> "num", v |-> n, s |-> ""]
PosInf == [k |-> "inf", v |-> 1, s |-> ""]
NegInf == [k |-> "inf", v |-> -1, s |-> ""]
NaN == [k |-> "nan", v |-> 0, s |-> ""]
Str(t) == [k |-> "str", v |-> 0, s |-> t]
Missing == [k |-> "missing", v |-> 0, s |-> ""]

IsFinite(x) == x.k = "num"
IsFloat(x) == x.k \in {"num", "inf", "nan"}

\* float + float
FAdd(a, b) ==
    IF a.k = "nan" \/ b.k = "nan" THEN NaN
    ELSE IF a.k = "inf" /\ b.k = "inf" THEN (IF a.v = b.v THEN a ELSE NaN)
    ELSE IF a.k = "inf" THEN a
    ELSE IF b.k = "inf" THEN b
    ELSE Num(a.v + b.v)

FNeg(a) == [a EXCEPT !.v = -a.v]

\* float - float
FSub(a, b) == FAdd(a, FNeg(b))

----------------------------------------------------------------------------
\* Requests, responses, objects

NoReq == [tool |-> "", strike |-> Missing, premium |-> Missing]
NoLocal == [obj |-> 0, be |-> Missing]
Free == [kind |-> "free", strike |-> Missing, premium |-> Missing]
NoValue == [none |-> TRUE]
NoResp == [status |-> "none", value |-> NoValue, err |-> ""]
NoSeen == [req |-> NoReq, resp |-> NoResp]

ResultResp(r) == [status |-> "result", value |-> r, err |-> ""]
ErrorResp(e) == [status |-> "error", value |-> NoValue, err |-> e]

ArgVals ==
    {Num(n) : n \in -MaxVal..MaxVal} \cup {PosInf, NegInf, NaN, Str("abc"), Missing}

ConcVals == {Num(n) : n \in 0..MaxConcVal}

----------------------------------------------------------------------------
\* The code

\* A variant of the parameter binding that also rejects negative numbers.
ArgsAcceptedNonNegative(strike, premium) ==
    /\ IsFloat(strike) /\ IsFloat(premium)
    /\ ~(IsFinite(strike) /\ strike.v < 0)
    /\ ~(IsFinite(premium) /\ premium.v < 0)

\* def call_option(strike: float, premium: float) / def put_option(...):
\* both parameters are required and must be floats; nothing else is checked.
ArgsAccepted(strike, premium) == IsFloat(strike) /\ IsFloat(premium)

\* A variant of allocation that keeps one module-level object.
NewRefShared(h) == 1

\* Call(strike, premium) / Put(strike, premium) allocates a fresh object.
NewRef(h) == CHOOSE r \in Refs : h[r] = Free

\* options_library.Call.breakeven
CallBreakeven(o) == FAdd(o.strike, o.premium)

\* options_library.Put.breakeven
PutBreakeven(o) == FSub(o.strike, o.premium)

\* Variants of the dict call_option returns.
CallResultStrikeOnly(i) ==
    [breakeven |-> heap[local[i].obj].strike,
     max_profit |-> Str("infinite"),
     max_loss |-> heap[local[i].obj].premium]

CallResultFiniteProfit(i) ==
    [breakeven |-> local[i].be,
     max_profit |-> IF IsFinite(local[i].be) THEN local[i].be ELSE Str("infinite"),
     max_loss |-> heap[local[i].obj].premium]

CallResultLossStrike(i) ==
    [breakeven |-> local[i].be,
     max_profit |-> Str("infinite"),
     max_loss |-> heap[local[i].obj].strike]

CallResultRunningLoss(i) ==
    [breakeven |-> local[i].be,
     max_profit |-> Str("infinite"),
     max_loss |-> IF seen.resp.status = "result"
                  THEN FAdd(heap[local[i].obj].premium, seen.resp.value.max_loss)
                  ELSE heap[local[i].obj].premium]

\* The dict call_option returns (lines 29-33).
CallResult(i) ==
    [breakeven |-> local[i].be,
     max_profit |-> Str("infinite"),
     max_loss |-> heap[local[i].obj].premium]

\* Variants of the dict put_option returns.
PutResultStrikeOnly(i) ==
    [breakeven |-> heap[local[i].obj].strike,
     max_profit |-> FSub(req[i].strike, req[i].premium),
     max_loss |-> req[i].premium]

PutResultClamped(i) ==
    [breakeven |-> local[i].be,
     max_profit |-> LET d == FSub(req[i].strike, req[i].premium)
                    IN  IF IsFinite(d) /\ d.v < 0 THEN Num(0) ELSE d,
     max_loss |-> req[i].premium]

PutResultNoLoss(i) ==
    [breakeven |-> local[i].be,
     max_profit |-> FSub(req[i].strike, req[i].premium)]

\* The dict put_option returns (lines 52-56).
PutResult(i) ==
    [breakeven |-> local[i].be,
     max_profit |-> FSub(req[i].strike, req[i].premium),
     max_loss |-> req[i].premium]

----------------------------------------------------------------------------
\* Actions

Init ==
    /\ pc = [i \in Inv |-> "idle"]
    /\ req = [i \in Inv |-> NoReq]
    /\ local = [i \in Inv |-> NoLocal]
    /\ heap = [r \in Refs |-> Free]
    /\ resp = [i \in Inv |-> NoResp]
    /\ seen = NoSeen

\* A caller sends tool t with arguments strike and premium taken from vals.
InvokeFrom(i, vals) ==
    /\ pc[i] = "idle"
    /\ \E t \in Tools, strike \in vals, premium \in vals :
          req' = [req EXCEPT ![i] = [tool |-> t, strike |-> strike, premium |-> premium]]
    /\ pc' = [pc EXCEPT ![i] = "called"]
    /\ UNCHANGED <<local, heap, resp, seen>>

Invoke(i) == InvokeFrom(i, ArgVals)

InvokeConc(i) == InvokeFrom(i, ConcVals)

\* The arguments bind to the handler's parameters and its body starts.
DispatchAccept(i) ==
    /\ pc[i] = "called"
    /\ ArgsAccepted(req[i].strike, req[i].premium)
    /\ pc' = [pc EXCEPT ![i] = "construct"]
    /\ UNCHANGED <<req, local, heap, resp, seen>>

\* The arguments do not bind: the call ends in an error, the body never runs.
DispatchReject(i) ==
    /\ pc[i] = "called"
    /\ ~ArgsAccepted(req[i].strike, req[i].premium)
    /\ resp' = [resp EXCEPT ![i] = ErrorResp("InvalidInput")]
    /\ pc' = [pc EXCEPT ![i] = "done"]
    /\ UNCHANGED <<req, local, heap, seen>>

\* call = Call(strike, premium)   /   put = Put(strike, premium)
Construct(i) ==
    /\ pc[i] = "construct"
    /\ LET r == NewRef(heap)
       IN  /\ heap' = [heap EXCEPT ![r] =
                          [kind |-> IF req[i].tool = "call_option" THEN "Call" ELSE "Put",
                           strike |-> req[i].strike,
                           premium |-> req[i].premium]]
           /\ local' = [local EXCEPT ![i].obj = r]
    /\ pc' = [pc EXCEPT ![i] = "breakeven"]
    /\ UNCHANGED <<req, resp, seen>>

\* call.breakeven()   /   put.breakeven()
Breakeven(i) ==
    /\ pc[i] = "breakeven"
    /\ local' = [local EXCEPT ![i].be =
                    IF req[i].tool = "call_option"
                    THEN CallBreakeven(heap[local[i].obj])
                    ELSE PutBreakeven(heap[local[i].obj])]
    /\ pc' = [pc EXCEPT ![i] = "return"]
    /\ UNCHANGED <<req, heap, resp, seen>>

\* return {...}: the dict is built, the frame and its option object go away.
Return(i) ==
    /\ pc[i] = "return"
    /\ resp' = [resp EXCEPT ![i] =
                   ResultResp(IF req[i].tool = "call_option"
                              THEN CallResult(i) ELSE PutResult(i))]
    /\ heap' = [heap EXCEPT ![local[i].obj] = Free]
    /\ local' = [local EXCEPT ![i] = NoLocal]
    /\ pc' = [pc EXCEPT ![i] = "done"]
    /\ UNCHANGED <<req, seen>>

\* The caller takes the response; the slot is free for the next invocation.
Collect(i) ==
    /\ pc[i] = "done"
    /\ pc' = [pc EXCEPT ![i] = "idle"]
    /\ req' = [req EXCEPT ![i] = NoReq]
    /\ resp' = [resp EXCEPT ![i] = NoResp]
    /\ UNCHANGED <<local, heap, seen>>

\* An observer remembers one finished invocation and its outcome.
Observe(i) ==
    /\ pc[i] = "done"
    /\ seen' = [req |-> req[i], resp |-> resp[i]]
    /\ UNCHANGED <<pc, req, local, heap, resp>>

\* Sequential service: one invocation at a time, any arguments.
Next ==
    \/ Invoke(1)
    \/ DispatchAccept(1)
    \/ DispatchReject(1)
    \/ Construct(1)
    \/ Breakeven(1)
    \/ Return(1)
    \/ Observe(1)
    \/ Collect(1)

Spec == Init /\ [][Next]_vars

\* Concurrent service: up to MaxInv invocations interleave step by step.
NextConc ==
    \E i \in Inv :
        \/ InvokeConc(i)
        \/ DispatchAccept(i)
        \/ Construct(i)
        \/ Breakeven(i)
        \/ Return(i)
        \/ Collect(i)

SpecConc == Init /\ [][NextConc]_vars

----------------------------------------------------------------------------
\* Properties

Returned(i, t) == pc[i] = "done" /\ req[i].tool = t /\ resp[i].status = "result"

Negative(x) == IsFinite(x) /\ x.v < 0

\* What an invocation returns when it runs with nothing else in flight.
Alone(r) ==
    IF ~(IsFloat(r.strike) /\ IsFloat(r.premium)) THEN ErrorResp("InvalidInput")
    ELSE IF r.tool = "call_option"
    THEN ResultResp([breakeven |-> FAdd(r.strike, r.premium),
                     max_profit |-> Str("infinite"),
                     max_loss |-> r.premium])
    ELSE ResultResp([breakeven |-> FSub(r.strike, r.premium),
                     max_profit |-> FSub(r.strike, r.premium),
                     max_loss |-> r.premium])

\* C1: call_option(strike, premium) with finite strike > 0 and premium >= 0
\* returns breakeven = strike + premium.
C1_CallBreakeven ==
    \A i \in Inv :
        (/\ Returned(i, "call_option")
         /\ IsFinite(req[i].strike) /\ req[i].strike.v > 0
         /\ IsFinite(req[i].premium) /\ req[i].premium.v >= 0)
        => resp[i].value.breakeven = Num(req[i].strike.v + req[i].premium.v)

C1_Witness ==
    /\ Returned(1, "call_option")
    /\ req[1].strike = Num(2) /\ req[1].premium = Num(1)
    /\ resp[1].value.breakeven = Num(3)

\* C2: put_option(strike, premium) with finite strike > 0 and premium >= 0
\* returns breakeven = strike - premium.
C2_PutBreakeven ==
    \A i \in Inv :
        (/\ Returned(i, "put_option")
         /\ IsFinite(req[i].strike) /\ req[i].strike.v > 0
         /\ IsFinite(req[i].premium) /\ req[i].premium.v >= 0)
        => resp[i].value.breakeven = Num(req[i].strike.v - req[i].premium.v)

C2_Witness ==
    /\ Returned(1, "put_option")
    /\ req[1].strike = Num(2) /\ req[1].premium = Num(1)
    /\ resp[1].value.breakeven = Num(1)

\* C3: put_option returns max_profit = strike - premium as computed, never
\* clamped: negative when premium > strike, zero when premium = strike.
C3_PutMaxProfitUnclamped ==
    \A i \in Inv :
        Returned(i, "put_option")
        => /\ resp[i].value.max_profit = FSub(req[i].strike, req[i].premium)
           /\ (IsFinite(req[i].strike) /\ IsFinite(req[i].premium))
              => resp[i].value.max_profit = Num(req[i].strike.v - req[i].premium.v)

C3_Witness ==
    /\ Returned(1, "put_option")
    /\ req[1].strike = Num(1) /\ req[1].premium = Num(2)
    /\ resp[1].value.max_profit = Num(-1)

\* C4: every result of call_option has max_profit = "infinite", whatever the
\* arguments, and never a number.
C4_CallMaxProfitInfinite ==
    \A i \in Inv :
        Returned(i, "call_option")
        => /\ resp[i].value.max_profit = Str("infinite")
           /\ ~IsFloat(resp[i].value.max_profit)

C4_Witness ==
    /\ Returned(1, "call_option")
    /\ req[1].strike = Num(-1) /\ req[1].premium = Num(2)
    /\ resp[1].value.max_profit = Str("infinite")

\* C5: for finite arguments both tools return max_loss = premium, whatever
\* the strike.
C5_MaxLossIsPremium ==
    \A i \in Inv :
        (/\ pc[i] = "done" /\ resp[i].status = "result"
         /\ IsFinite(req[i].strike) /\ IsFinite(req[i].premium))
        => resp[i].value.max_loss = req[i].premium

C5_Witness ==
    /\ Returned(1, "call_option")
    /\ req[1].strike = Num(2) /\ req[1].premium = Num(1)
    /\ resp[1].value.max_loss = Num(1)

\* C6 as claimed: a negative strike or premium ends in an error and no
\* result mapping.
C6_NegativeRejected ==
    \A i \in Inv :
        (/\ pc[i] = "done"
         /\ IsFloat(req[i].strike) /\ IsFloat(req[i].premium)
         /\ (Negative(req[i].strike) \/ Negative(req[i].premium)))
        => resp[i].status = "error" /\ resp[i].value = NoValue

\* C6 amended: a negative strike or premium (the other argument a float) is
\* not rejected; the invocation returns the mapping computed by the same
\* formulas as for any other numbers.
C6_NegativeAccepted ==
    \A i \in Inv :
        (/\ pc[i] = "done"
         /\ IsFloat(req[i].strike) /\ IsFloat(req[i].premium)
         /\ (Negative(req[i].strike) \/ Negative(req[i].premium)))
        => /\ resp[i].status = "result"
           /\ resp[i].value.max_loss = req[i].premium
           /\ resp[i].value.breakeven =
                 IF req[i].tool = "call_option"
                 THEN FAdd(req[i].strike, req[i].premium)
                 ELSE FSub(req[i].strike, req[i].premium)
           /\ resp[i].value.max_profit =
                 IF req[i].tool = "call_option"
                 THEN Str("infinite")
                 ELSE FSub(req[i].strike, req[i].premium)

C6_Witness ==
    /\ Returned(1, "put_option")
    /\ req[1].strike = Num(-2) /\ req[1].premium = Num(-1)
    /\ resp[1].value.breakeven = Num(-1)

\* C7 as claimed: a non-numeric, non-finite or missing strike or premium is
\* rejected as InvalidInput and no result mapping is produced.
C7_InvalidInputRejected ==
    \A i \in Inv :
        (/\ pc[i] = "done"
         /\ (~IsFinite(req[i].strike) \/ ~IsFinite(req[i].premium)))
        => /\ resp[i].status = "error"
           /\ resp[i].err = "InvalidInput"
           /\ resp[i].value = NoValue

C9_ConcurrentIsolation ==
    /\ \A i \in Inv : pc[i] = "done" => resp[i] = Alone(req[i])
    /\ \A i, j \in Inv :
          (i # j /\ local[i].obj # 0 /\ local[j].obj # 0)
          => local[i].obj # local[j].obj

C9_Witness ==
    /\ pc[1] = "done" /\ resp[1].status = "result"
    /\ pc[2] = "return"
    /\ req[1] # req[2]

\* C10: every result is a mapping with exactly the keys breakeven,
\* max_profit and max_loss; max_profit is the string "infinite" exactly for
\* call_option and a number exactly for put_option.
C10_ResultShape ==
    \A i \in Inv :
        (pc[i] = "done" /\ resp[i].status = "result")
        => /\ DOMAIN resp[i].value = {"breakeven", "max_profit", "max_loss"}
           /\ \/ resp[i].value.max_profit = Str("infinite")
              \/ IsFloat(resp[i].value.max_profit)
           /\ (resp[i].value.max_profit = Str("infinite"))
              <=> (req[i].tool = "call_option")
           /\ IsFloat(resp[i].value.max_profit) <=> (req[i].tool = "put_option")

C10_Witness ==
    /\ Returned(1, "put_option")
    /\ req[1].strike = Num(2) /\ req[1].premium = Num(0)
    /\ resp[1].value.max_profit = Num(2)

====
